---------------------------- MODULE Spec2Model ----------------------------
(***************************************************************************)
(* Change Management Dashboard (src/app/page.tsx): the filter pipeline,    *)
(* the record classifier and the summary of ChangeOrdersDashboard.         *)
(*                                                                         *)
(* Conventions of the model                                                *)
(*  - free text (id, title, sponsor, the search box) is a sequence of      *)
(*    one-character strings, so that toLowerCase, includes and the         *)
(*    template literal of the search predicate are computed, not assumed;  *)
(*  - an optional field of a record is <<>> when the property is absent    *)
(*    and <<v>> when it is present with value v;                           *)
(*  - the values memoised with useMemo are state variables that every      *)
(*    handler recomputes as part of the render its setState triggers;      *)
(*  - an instant is a number of ticks, four to a day; a percentage p is     *)
(*    the integer p * PctUnit; the text of the CSV file is a sequence of    *)
(*    tokens (characters, and whole words of the program's vocabulary).     *)
(*                                                                         *)
(* Specifications                                                          *)
(*  - Spec: the filters of the dashboard over record sets of RowSets;      *)
(*  - SpecSession: the filters, the Details buttons and the CSV export;    *)
(*  - SpecFn: the utility functions and ProjectKPIs, every step one call;  *)
(*  - SpecCsv: buildCSV, every step one call;                              *)
(*  - SpecRow: the stage progress breakdown of a row, every step one call. *)
(***************************************************************************)
EXTENDS Naturals, Integers, Sequences, FiniteSets

VARIABLES
    rows,           \* useState(initial ?? DEMO): the full record set
    stage,          \* useState("All"): stage filter, no setter is taken
    pkg,            \* useState("All"): package filter
    q,              \* useState(""): search text
    view,           \* useMemo: the current view
    pcrRows,        \* useMemo: view records of type PRC
    pcrToEiRows,    \* useMemo: table 1
    pcrToCoRows,    \* useMemo: table 2
    completedRows,  \* useMemo: table 3
    summary,        \* SummaryCard: useMemo(computeSummary(view))
    open,           \* Row: ids of the rows of tables 1 and 2 whose `open` is true
    crashed,        \* a render threw: the component tree is gone
    call            \* the function called by the last step: name, arguments, result

vars == <<rows, stage, pkg, q, view, pcrRows, pcrToEiRows, pcrToCoRows,
          completedRows, summary, open, crashed, call>>

---------------------------------------------------------------------------
(* Bounds of the model *)

MaxRows == 3        \* longest record set drawn for `initial`

MaxQLen == 1        \* longest search text typed over QAlphabet

MaxTick == 10       \* latest instant of the clock and of a date, in ticks

MaxKpiRows == 2     \* longest view handed to ProjectKPIs on its own

MaxCsvRows == 2     \* longest view handed to buildCSV on its own

MaxSessionRows == 2 \* most records of a session with details and export

---------------------------------------------------------------------------
(* Generic helpers *)

Range(s) == {s[i] : i \in 1..Len(s)}

SeqsUpTo(S, n) == UNION {[1..k -> S] : k \in 0..n}

\* optional property: absent
None == <<>>

\* optional property: present with value v
Some(v) == <<v>>

---------------------------------------------------------------------------
(* Text: String.prototype.toLowerCase and String.prototype.includes *)

UpperCase == <<"A","B","C","D","E","F","G","H","I","J","K","L","M",
               "N","O","P","Q","R","S","T","U","V","W","X","Y","Z">>

LowerCase == <<"a","b","c","d","e","f","g","h","i","j","k","l","m",
               "n","o","p","q","r","s","t","u","v","w","x","y","z">>

\* the upper-case letters with their lower-case forms
UpperToLower ==
    [c \in Range(UpperCase) |->
        LowerCase[CHOOSE i \in 1..Len(UpperCase) : UpperCase[i] = c]]

toLowerCaseChar(c) == IF c \in DOMAIN UpperToLower THEN UpperToLower[c] ELSE c

toLowerCase(s) == [i \in 1..Len(s) |-> toLowerCaseChar(s[i])]

includes(hay, needle) ==
    \E i \in 0..(Len(hay) - Len(needle)) :
        SubSeq(hay, i + 1, i + Len(needle)) = needle

\* `${x}` of a template literal: an absent property prints as "undefined"
TemplateText(opt) ==
    IF opt = None THEN <<"u","n","d","e","f","i","n","e","d">> ELSE opt[1]

\* x ?? "" on an optional text
OrEmpty(opt) == IF opt = None THEN <<>> ELSE opt[1]

---------------------------------------------------------------------------
(* Types *)

StageKey == {"PRC", "CC_OUTCOME", "CEO_OR_BOARD_MEMO", "EI", "CO_V_VOS", "AA_SA"}

PackageId == {"A", "B", "C", "D", "E", "F", "G", "I2", "PMEC"}

\* the `items` array of PackageChips, in chip order
PackageItems == <<"A", "B", "C", "D", "E", "F", "G", "I2", "PMEC">>

ChangeRecord(id, type, package, title, estimated, actual, stageKey, subStatus, outcome, target, sponsor, prcTarget, stageStartDate, overallStartDate) ==
    [id |-> id, type |-> type, package |-> package, title |-> title,
     estimated |-> estimated, actual |-> actual, stageKey |-> stageKey,
     subStatus |-> subStatus, outcome |-> outcome, target |-> target,
     sponsor |-> sponsor, prcTarget |-> prcTarget,
     stageStartDate |-> stageStartDate, overallStartDate |-> overallStartDate]

FireHydrantPCR == <<"F","i","r","e"," ","H","y","d","r","a","n","t"," ","(","P","C","R",")">>

FireHydrantEI == <<"F","i","r","e"," ","H","y","d","r","a","n","t"," ","(","E","I",")">>

\* Records the dashboard can be mounted with: entries of DEMO with their
\* texts shortened, and variations of them an `initial` prop may carry.
RecordPool == {
    \* PCR-A-013 at the sub-status of PCR-F-009: a PRC bound for EI, closed
    ChangeRecord(<<"a">>, "PRC", "A", Some(FireHydrantPCR), Some(350000), None,
                 Some("EI"), Some("To be Issued to Contractor"), None, Some("EI"),
                 None, None,
                 Some(4), Some(0)),
    \* EI-A-004, carrying a target: an EI in preparation
    ChangeRecord(<<"a","a">>, "EI", "A", Some(FireHydrantEI), Some(0), None,
                 Some("EI"), Some("In Preparation"), None, Some("EI"), None, Some("EI"),
                 Some(8), Some(4)),
    \* EI-B-007: an issued EI with an empty title
    ChangeRecord(<<"b">>, "EI", "B", Some(<<>>), Some(0), None,
                 Some("EI"), Some("Issued"), None, None, Some(<<"a">>), None,
                 Some(0), Some(0)),
    \* PCR-G-017: a PRC with target VOS, "Issued" outside stage EI
    ChangeRecord(<<"g">>, "PRC", "G", Some(<<"a">>), Some(1100000), Some(1050000),
                 Some("CO_V_VOS"), Some("Issued"), None, Some("VOS"),
                 Some(<<"A">>), None,
                 Some(8), Some(0)),
    \* a PRC with target CO that lacks the title, stageKey, subStatus and dates
    \* the interface requires (data that was never type-checked)
    ChangeRecord(<<"e">>, "PRC", "E", None, None, None,
                 None, None, None, Some("CO"), Some(<<"A">>), None,
                 None, None),
    \* CO-G-032: a closed change order
    ChangeRecord(<<"c">>, "CO", "G", Some(<<"b">>), Some(2000000), Some(1850000),
                 Some("AA_SA"), Some("Done"), Some("Approved"), None,
                 Some(<<"g">>), None,
                 Some(4), Some(4)),
    \* PCR-E-024 closed in CO_V_VOS: a PRC with target AA
    ChangeRecord(<<"d">>, "PRC", "E", Some(<<"a","a">>), Some(600000), Some(590000),
                 Some("CO_V_VOS"), Some("Done"), None, Some("AA"), None, None,
                 Some(8), Some(8))
}

\* record sets with unique ids (id: unique identifier, used as React key)
RowSets ==
    {rs \in SeqsUpTo(RecordPool, MaxRows) :
        \A i, j \in 1..Len(rs) : i # j => rs[i].id # rs[j].id}

QAlphabet == {"a", "A"}

\* texts typed into the search box
QSet ==
    SeqsUpTo(QAlphabet, MaxQLen)
    \cup {<<" ">>, <<"h","y","d","r","a","n","t">>, <<"H","Y","D","R","A","N","T">>}

---------------------------------------------------------------------------
(* Lifecycle registry and utilities *)

\* STAGES (the presentational fields short and color are left out)
STAGES == <<
    [order |-> 1, key |-> "PRC", name |-> "PRC", slaDays |-> 5],
    [order |-> 2, key |-> "CC_OUTCOME", name |-> "CC Outcome", slaDays |-> 3],
    [order |-> 3, key |-> "CEO_OR_BOARD_MEMO", name |-> "CEO / Board Memo", slaDays |-> 2],
    [order |-> 4, key |-> "EI", name |-> "EI", slaDays |-> 2],
    [order |-> 5, key |-> "CO_V_VOS", name |-> "CO/V/VOS", slaDays |-> 7],
    [order |-> 6, key |-> "AA_SA", name |-> "AA/SA", slaDays |-> 0] >>

\* Math.round of the quotient n / d, d > 0: the nearest integer, a half
\* going up
MathRound(n, d) == (2 * n + d) \div (2 * d)

Max(a, b) == IF a >= b THEN a ELSE b

Min(a, b) == IF a <= b THEN a ELSE b

\* String(key) of a stage key that may be absent
StringOfKey(key) == IF key = None THEN "undefined" ELSE key[1]

\* stageInfo with the first stage as the fallback
stageInfoFirstStage(key) ==
    IF \E i \in 1..Len(STAGES) : Some(STAGES[i].key) = key
    THEN STAGES[CHOOSE i \in 1..Len(STAGES) : Some(STAGES[i].key) = key]
    ELSE [order |-> STAGES[1].order, key |-> key, name |-> StringOfKey(key),
          slaDays |-> STAGES[1].slaDays]

\* stageInfo(key): the registry entry, or the placeholder of an unknown key
stageInfo(key) ==
    IF \E i \in 1..Len(STAGES) : Some(STAGES[i].key) = key
    THEN STAGES[CHOOSE i \in 1..Len(STAGES) : Some(STAGES[i].key) = key]
    ELSE [order |-> 0, key |-> key, name |-> StringOfKey(key), slaDays |-> 0]

\* stageInfo(key) calls console.error
stageInfoLogs(key) == ~(\E i \in 1..Len(STAGES) : Some(STAGES[i].key) = key)

\* progressPct rounding down
progressPctFloor(key) ==
    (stageInfo(key).order * 100) \div STAGES[Len(STAGES)].order

progressPct(key) ==
    MathRound(stageInfo(key).order * 100, STAGES[Len(STAGES)].order)

\* variance testing the operands for truthiness
varianceTruthy(estimated, actual) ==
    IF estimated = None \/ actual = None \/ estimated = Some(0) \/ actual = Some(0)
    THEN None
    ELSE Some(actual[1] - estimated[1])

\* variance(estimated, actual): null is None
variance(estimated, actual) ==
    IF estimated = None \/ actual = None THEN None
    ELSE Some(actual[1] - estimated[1])

\* Row: varianceValue
varianceValue(r) ==
    IF r.estimated # None /\ r.actual # None THEN Some(r.actual[1] - r.estimated[1])
    ELSE None

\* length of a day in ticks of the clock (a tick is a quarter of a day)
TicksPerDay == 4

\* daysBetween without the final Math.max
daysBetweenNoClamp(startIso, endIso, now) ==
    IF startIso = None THEN 0
    ELSE LET end == IF endIso # None THEN endIso[1] ELSE now
         IN MathRound(end - startIso[1], TicksPerDay)

\* daysBetween(startIso, endIso) evaluated when the clock shows `now`; a date
\* is the instant it parses to, an absent or empty date is None
daysBetween(startIso, endIso, now) ==
    IF startIso = None THEN 0
    ELSE LET end == IF endIso # None THEN endIso[1] ELSE now
             diff == MathRound(end - startIso[1], TicksPerDay)
         IN Max(diff, 0)

---------------------------------------------------------------------------
(* ProjectKPIs and Progress *)

TOTAL_PROJECT_VALUE == 500000000

LIMIT_PERCENT == 10

\* A percentage p is held exactly, as the integer p * PctUnit
PctUnit == TOTAL_PROJECT_VALUE \div 100

Digits == <<"0", "1", "2", "3", "4", "5", "6", "7", "8", "9">>

RECURSIVE NatText(_)
\* decimal text of a natural number
NatText(n) ==
    IF n < 10 THEN <<Digits[n + 1]>>
    ELSE NatText(n \div 10) \o <<Digits[(n % 10) + 1]>>

\* Number.prototype.toFixed(2) of the percentage p: text of its nearest
\* hundredth (the views of the model give no percentage midway between two)
toFixed2(p) ==
    LET a == IF p >= 0 THEN p ELSE 0 - p
        h == MathRound(a, PctUnit \div 100)
    IN (IF p < 0 THEN <<"-">> ELSE <<>>)
       \o NatText(h \div 100) \o <<".">>
       \o <<Digits[((h \div 10) % 10) + 1], Digits[(h % 10) + 1]>>

\* approvedRows keeping every record with an actual amount
approvedRowsAnyOutcome(rs) == SelectSeq(rs, LAMBDA r : r.actual # None)

\* ProjectKPIs: approvedRows
approvedRows(rs) ==
    SelectSeq(rs, LAMBDA r : r.outcome = Some("Approved") /\ r.actual # None)

RECURSIVE SumActual(_)
\* reduce((sum, r) => sum + (r.actual ?? 0), 0)
SumActual(rs) ==
    IF rs = <<>> THEN 0
    ELSE (IF Head(rs).actual = None THEN 0 ELSE Head(rs).actual[1]) + SumActual(Tail(rs))

RECURSIVE SumEstimated(_)
\* reduce((sum, r) => sum + (r.estimated ?? 0), 0)
SumEstimated(rs) ==
    IF rs = <<>> THEN 0
    ELSE (IF Head(rs).estimated = None THEN 0 ELSE Head(rs).estimated[1])
         + SumEstimated(Tail(rs))

\* percentVsLimitPct without the upper clamp
percentVsLimitPctNoMin(changePercent) ==
    IF LIMIT_PERCENT = 0 THEN 0
    ELSE Max(0, changePercent * (100 \div LIMIT_PERCENT))

\* ProjectKPIs (first revision): percentVsLimitPct
percentVsLimitPct(changePercent) ==
    IF LIMIT_PERCENT = 0 THEN 0
    ELSE Min(100 * PctUnit, Max(0, changePercent * (100 \div LIMIT_PERCENT)))

\* ProjectKPIs (first revision): the memoised k
ProjectKPIs(rs) ==
    LET totalApprovedValue == SumActual(approvedRows(rs))
        changePercent ==
            IF TOTAL_PROJECT_VALUE = 0 THEN 0
            ELSE totalApprovedValue * ((100 * PctUnit) \div TOTAL_PROJECT_VALUE)
        limitValue == (TOTAL_PROJECT_VALUE \div 100) * LIMIT_PERCENT
    IN [totalProjectValue |-> TOTAL_PROJECT_VALUE,
        totalApprovedValue |-> totalApprovedValue,
        changePercentDisplay |-> toFixed2(changePercent),
        limitValue |-> limitValue,
        approvedVsLimitPct |->
            IF limitValue = 0 THEN 0
            ELSE Min(100 * PctUnit,
                     Max(0, totalApprovedValue * ((100 * PctUnit) \div limitValue))),
        percentVsLimitPct |-> percentVsLimitPct(changePercent)]

\* ProjectKPIs (second revision): the memoised k
ProjectKPIs2(rs) ==
    LET totalCOValue == SumEstimated(rs)
        totalApprovedValue == SumActual(approvedRows(rs))
    IN [totalProjectValue |-> TOTAL_PROJECT_VALUE,
        totalCOValue |-> totalCOValue,
        totalApprovedValue |-> totalApprovedValue,
        changePercentage |->
            IF TOTAL_PROJECT_VALUE = 0 THEN <<"0", ".", "0", "0">>
            ELSE toFixed2(totalCOValue * ((100 * PctUnit) \div TOTAL_PROJECT_VALUE))]

\* the two Progress components of the source
ProgressVariants == {"part_001", "part_002"}

\* Progress: the width of the bar, as a percentage
ProgressWidth(variant, value) ==
    IF variant = "part_001" THEN Max(0, Min(100 * PctUnit, value)) ELSE value

---------------------------------------------------------------------------
(* CSV helpers *)

\* A text written to the file is a sequence of tokens. A token is one
\* character, or a whole word of the program's own vocabulary (a header name,
\* a type code, a package id, a stage name or key, a sub-status, a PCR
\* target), none of which holds a comma, a double quote or a line break.

RECURSIVE Join(_, _)
\* Array.prototype.join: the texts of parts with sep between them
Join(parts, sep) ==
    IF parts = <<>> THEN <<>>
    ELSE IF Len(parts) = 1 THEN parts[1]
    ELSE parts[1] \o <<sep>> \o Join(Tail(parts), sep)

\* text of a number
NumText(n) == IF n < 0 THEN <<"-">> \o NatText(0 - n) ELSE NatText(n)

\* `n || ""`: a number that is 0 written as the empty text
NumOrEmptyTruthy(opt) == IF opt = None \/ opt = Some(0) THEN <<>> ELSE NumText(opt[1])

\* text of `n ?? ""` for an optional number
NumOrEmpty(opt) == IF opt = None THEN <<>> ELSE NumText(opt[1])

\* text of `w ?? ""` for an optional word
WordOrEmpty(opt) == IF opt = None THEN <<>> ELSE <<opt[1]>>

RECURSIVE replaceAllQuotes(_)
\* t.replaceAll('"', '""')
replaceAllQuotes(t) ==
    IF t = <<>> THEN <<>>
    ELSE (IF Head(t) = "\"" THEN <<"\"", "\"">> ELSE <<Head(t)>>)
         \o replaceAllQuotes(Tail(t))

\* buildCSV: headers
headers == <<"ID", "Type", "Package", "Title", "Estimated", "Actual", "Variance",
             "Stage", "SubStatus", "PRCTarget", "Sponsor", "DaysInStage", "OverallDays">>

\* buildCSV: r.title.replaceAll raises a TypeError on a record without title
buildCSVThrows(rs) == \E i \in 1..Len(rs) : rs[i].title = None

\* the PRCTarget cell taken from the field target
prcTargetCellFromTarget(r) == WordOrEmpty(r.target)

\* buildCSV: the PRCTarget cell, r.prcTarget ?? ""
prcTargetCell(r) == WordOrEmpty(r.prcTarget)

\* buildCSV: the line of record r, exported when the clock shows `now`
CsvLine(r, now) ==
    LET st == stageInfo(r.stageKey)
        vr == variance(r.estimated, r.actual)
        safeTitle == <<"\"">> \o replaceAllQuotes(r.title[1]) \o <<"\"">>
    IN Join(<< r.id, <<r.type>>, <<r.package>>, safeTitle,
               NumOrEmpty(r.estimated), NumOrEmpty(r.actual), NumOrEmpty(vr),
               <<st.name>>, WordOrEmpty(r.subStatus), prcTargetCell(r),
               OrEmpty(r.sponsor),
               NumText(daysBetween(r.stageStartDate, None, now)),
               NumText(daysBetween(r.overallStartDate, None, now)) >>, ",")

\* buildCSV emitting a line break after every line
buildCSVTrailingNewline(rs, now) ==
    Join(<<Join([i \in 1..Len(headers) |-> <<headers[i]>>], ",")>>
         \o [i \in 1..Len(rs) |-> CsvLine(rs[i], now)], "\n") \o <<"\n">>

\* buildCSV(rows) when it does not throw
buildCSV(rs, now) ==
    Join(<<Join([i \in 1..Len(headers) |-> <<headers[i]>>], ",")>>
         \o [i \in 1..Len(rs) |-> CsvLine(rs[i], now)], "\n")

---------------------------------------------------------------------------
(* ChangeOrdersDashboard: the derivations of one render *)

\* searchText without the sponsor
searchTextNoSponsor(r) == r.id \o <<" ">> \o TemplateText(r.title) \o <<" ">>

\* `${r.id} ${r.title} ${r.sponsor ?? ""}`
searchText(r) ==
    r.id \o <<" ">> \o TemplateText(r.title) \o <<" ">> \o OrEmpty(r.sponsor)

\* matchesSearch comparing the texts as typed
matchesSearchCaseSensitive(r, s) ==
    IF s # <<>> THEN includes(searchText(r), s) ELSE TRUE

\* third predicate of the view filter
matchesSearch(r, s) ==
    IF s # <<>> THEN includes(toLowerCase(searchText(r)), toLowerCase(s)) ELSE TRUE

\* the stage predicate without the case "All"
matchesStageNoAll(r, st) == r.stageKey = Some(st)

matchesStage(r, st) == IF st = "All" THEN TRUE ELSE r.stageKey = Some(st)

matchesPackage(r, p) == IF p = "All" THEN TRUE ELSE r.package = p

Reverse(s) == [i \in 1..Len(s) |-> s[Len(s) + 1 - i]]

\* FilterView followed by a descending sort on the row position
FilterViewReversed(rs, st, p, s) ==
    LET byStage(r) == matchesStage(r, st)
        byPkg(r) == matchesPackage(r, p)
        byText(r) == matchesSearch(r, s)
    IN Reverse(SelectSeq(SelectSeq(SelectSeq(rs, byStage), byPkg), byText))

\* FilterView without the package predicate
FilterViewNoPkg(rs, st, p, s) ==
    LET byStage(r) == matchesStage(r, st)
        byText(r) == matchesSearch(r, s)
    IN SelectSeq(SelectSeq(rs, byStage), byText)

\* rows.filter(stage).filter(pkg).filter(q)
FilterView(rs, st, p, s) ==
    LET byStage(r) == matchesStage(r, st)
        byPkg(r) == matchesPackage(r, p)
        byText(r) == matchesSearch(r, s)
    IN SelectSeq(SelectSeq(SelectSeq(rs, byStage), byPkg), byText)

\* useMemoView narrowing the cached view in place
useMemoViewInPlace(prev, rs, st, p, s) == FilterView(prev, st, p, s)

\* useMemo(() => rows.filter..., [rows, stage, pkg, q]): the cached value is
\* dropped and the view is computed again from the dependencies
useMemoView(prev, rs, st, p, s) == FilterView(rs, st, p, s)

\* PcrRowsOf without the type test
PcrRowsOfAnyType(v) == v

PcrRowsOf(v) == LET isPrc(r) == r.type = "PRC" IN SelectSeq(v, isPrc)

PcrToEiRowsOf(prs) == LET toEi(r) == r.target = Some("EI") IN SelectSeq(prs, toEi)

PcrToCoRowsOf(prs) == LET toCo(r) == r.target = Some("CO") IN SelectSeq(prs, toCo)

\* isEICompleted without its second sub-status
isEICompletedIssuedOnly(r) ==
    r.stageKey = Some("EI") /\ r.subStatus = Some("Issued")

isEICompleted(r) ==
    r.stageKey = Some("EI")
    /\ (r.subStatus = Some("Issued")
        \/ r.subStatus = Some("To be Issued to Contractor"))

isCOOrAACompleted(r) ==
    \/ (r.stageKey = Some("CO_V_VOS") /\ r.subStatus = Some("Done"))
    \/ (r.stageKey = Some("AA_SA") /\ r.subStatus = Some("Done"))

isCompleted(r) == isEICompleted(r) \/ isCOOrAACompleted(r)

\* Row: showClosedSummary
showClosedSummary(r) ==
    LET rowIsEICompleted ==
            r.stageKey = Some("EI")
            /\ (r.subStatus = Some("Issued")
                \/ r.subStatus = Some("To be Issued to Contractor"))
        rowIsCOOrAACompleted ==
            (r.stageKey = Some("AA_SA") \/ r.stageKey = Some("CO_V_VOS"))
            /\ r.subStatus = Some("Done")
    IN rowIsEICompleted \/ rowIsCOOrAACompleted

\* CompletedRowsOf reading the full record set instead of the view
CompletedRowsOfRows(v) == SelectSeq(rows, isCompleted)

CompletedRowsOf(v) == SelectSeq(v, isCompleted)

computeSummary(rs) ==
    LET isPrc(r) == r.type = "PRC"
        toEi(r) == r.target = Some("EI")
        toCo(r) == r.target = Some("CO")
        pcrs == SelectSeq(rs, isPrc)
        eiDone(r) ==
            r.stageKey = Some("EI")
            /\ (r.subStatus = Some("Issued")
                \/ r.subStatus = Some("To be Issued to Contractor"))
        coOrAaDone(r) ==
            \/ (r.stageKey = Some("CO_V_VOS") /\ r.subStatus = Some("Done"))
            \/ (r.stageKey = Some("AA_SA") /\ r.subStatus = Some("Done"))
        done(r) == eiDone(r) \/ coOrAaDone(r)
    IN [total |-> Len(rs),
        pcrToEI |-> Len(SelectSeq(pcrs, toEi)),
        pcrToCO |-> Len(SelectSeq(pcrs, toCo)),
        completed |-> Len(SelectSeq(rs, done))]

\* the memoised values of a render whose view is v
Derived(v) ==
    /\ pcrRows' = PcrRowsOf(v)
    /\ pcrToEiRows' = PcrToEiRowsOf(PcrRowsOf(v))
    /\ pcrToCoRows' = PcrToCoRowsOf(PcrRowsOf(v))
    /\ completedRows' = CompletedRowsOf(v)
    /\ summary' = computeSummary(v)

\* instants at which an export is made
CsvNows == {0, MaxTick - 1, MaxTick}

\* the last step called no function
NoCall == [fn |-> "none"]

\* STAGE_OPTIONS (first revision)
STAGE_OPTIONS ==
    [k \in StageKey |->
        CASE k = "PRC" ->
               <<"In Preparation", "Under Review", "Ready for CC", "To be Resubmitted",
                 "Presented at CC", "To be Revised", "Circuled by Post CC Email",
                 "Updated PCR in Preparation">>
          [] k = "CC_OUTCOME" ->
               <<"Approved", "Approved with Conditions", "To be Re-Submitted",
                 "Rejected", "On Hold/Others">>
          [] k = "CEO_OR_BOARD_MEMO" ->
               <<"Determination in Circulation", "In Draft", "In Circulation",
                 "In Approval", "Approved", "Rejected">>
          [] OTHER ->
               <<"To be Prepared", "In Preparation", "Under Review", "Ready",
                 "In Circulation", "In Approval", "Issued",
                 "To be Issued to Contractor">>]

\* STAGE_OPTIONS (second revision): the first four lists are those of the
\* first revision
STAGE_OPTIONS2 ==
    [k \in StageKey |->
        IF k \in {"CO_V_VOS", "AA_SA"} THEN <<"NA", "Done">> ELSE STAGE_OPTIONS[k]]

\* Array.prototype.findIndex(o => o === v): the index, counted from 0, of the
\* first element of opts equal to v, or -1
findIndex(opts, v) ==
    IF \E i \in 1..Len(opts) : opts[i] = v
    THEN (CHOOSE i \in 1..Len(opts) : opts[i] = v /\ \A j \in 1..(i - 1) : opts[j] # v) - 1
    ELSE 0 - 1

\* currentIdx without Math.max
currentIdxNoMax(opts, subStatus) ==
    findIndex(opts, IF subStatus = None THEN "" ELSE subStatus[1])

\* Row, stage progress breakdown: currentIdx
currentIdx(opts, subStatus) ==
    Max(0, findIndex(opts, IF subStatus = None THEN "" ELSE subStatus[1]))

\* Row, stage progress breakdown: the labels rendered under each option of
\* opts, in the order of the options
stageBreakdown(opts, subStatus) ==
    [i \in 1..Len(opts) |->
        LET idx == i - 1
            optIsCurrent == idx = currentIdx(opts, subStatus)
            optIsCompleted == idx < currentIdx(opts, subStatus)
            optIsFuture == idx > currentIdx(opts, subStatus)
        IN (IF optIsCurrent THEN {"Current"} ELSE {})
           \cup (IF optIsCompleted THEN {"Completed"} ELSE {})
           \cup (IF optIsFuture THEN {"Incomplete"} ELSE {})]

\* Row, details open: STAGE_OPTIONS[r.stageKey] is undefined, and
\* opts.findIndex raises a TypeError
DetailsThrow(r) == r.stageKey = None \/ r.stageKey[1] \notin DOMAIN STAGE_OPTIONS

\* ids of the rows of tables 1 and 2 (Row with mode "pcr")
PcrModeIds(ei, co) == {ei[i].id : i \in 1..Len(ei)} \cup {co[i].id : i \in 1..Len(co)}

\* rendering tables 1 and 2 with the rows of ids op open throws
RenderThrows(ei, co, op) ==
    \/ \E i \in 1..Len(ei) : ei[i].id \in op /\ DetailsThrow(ei[i])
    \/ \E i \in 1..Len(co) : co[i].id \in op /\ DetailsThrow(co[i])

\* rows.filter applied to the array itself
RowsAfterFilterInPlace(rs, v) == v

\* the record array after the view v was derived from it: filter returns a
\* new array and leaves rs as it is
RowsAfterFilter(rs, v) == rs

\* ChangeOrdersDashboard: the notice "No records match the current filters."
\* is rendered
noRecordsNotice(v) == Len(v) = 0

\* ChangeOrdersDashboard: the notice "Current filters match only non-PCR
\* records" is rendered
onlyNonPcrNotice(pr, v) == Len(pr) = 0 /\ Len(v) > 0

\* re-render after setPkg / setQ moved the filters to (p, s); a row that
\* leaves its table is unmounted and loses its `open`
Render(p, s) ==
    /\ ~crashed
    /\ pkg' = p
    /\ q' = s
    /\ view' = useMemoView(view, rows, stage, p, s)
    /\ rows' = RowsAfterFilter(rows, view')
    /\ Derived(view')
    /\ open' = open \cap PcrModeIds(pcrToEiRows', pcrToCoRows')
    /\ crashed' = RenderThrows(pcrToEiRows', pcrToCoRows', open')
    /\ call' = NoCall
    /\ UNCHANGED stage

\* Row: the Details button of a row of table 1 or 2, setOpen(v => !v)
ToggleDetails ==
    /\ ~crashed
    /\ \E id \in PcrModeIds(pcrToEiRows, pcrToCoRows) :
           /\ open' = IF id \in open THEN open \ {id} ELSE open \cup {id}
           /\ crashed' = RenderThrows(pcrToEiRows, pcrToCoRows, open')
    /\ call' = NoCall
    /\ UNCHANGED <<rows, stage, pkg, q, view, pcrRows, pcrToEiRows, pcrToCoRows,
                   completedRows, summary>>

\* exportCSV(rows) when the clock shows `now`: the text handed to the
\* download, or the exception of buildCSV
exportCSV(rs, now) ==
    [fn |-> "exportCSV", rows |-> rs, now |-> now,
     threw |-> buildCSVThrows(rs),
     result |-> IF buildCSVThrows(rs) THEN <<>> ELSE buildCSV(rs, now)]

\* onExport exporting the full record set
onExportAllRows(rs, v, now) == exportCSV(rs, now)

\* ChangeOrdersDashboard: onExport={() => exportCSV(view)}, in a render
\* whose record set is rs and whose view is v
onExport(rs, v, now) == exportCSV(v, now)

\* Filters: the export button; an exception of the handler leaves the
\* rendered tree in place
ExportCSV ==
    /\ ~crashed
    /\ \E now \in CsvNows : call' = onExport(rows, view, now)
    /\ UNCHANGED <<rows, stage, pkg, q, view, pcrRows, pcrToEiRows, pcrToCoRows,
                   completedRows, summary, open, crashed>>

---------------------------------------------------------------------------
(* State machine *)

\* first render of the dashboard on the record set held in rows
Mount ==
    /\ stage = "All"
    /\ pkg = "All"
    /\ q = <<>>
    /\ view = FilterView(rows, "All", "All", <<>>)
    /\ pcrRows = PcrRowsOf(view)
    /\ pcrToEiRows = PcrToEiRowsOf(pcrRows)
    /\ pcrToCoRows = PcrToCoRowsOf(pcrRows)
    /\ completedRows = CompletedRowsOf(view)
    /\ summary = computeSummary(view)
    /\ open = {}
    /\ crashed = FALSE
    /\ call = NoCall

Init == rows \in RowSets /\ Mount

\* PackageChips: a package chip, onSelect(p)
SelectPackage == \E i \in 1..Len(PackageItems) : Render(PackageItems[i], q)

\* PackageChips: the "All" button, onSelect("All")
SelectAll == Render("All", q)

\* the "None" button selecting no package
NoneButtonSelectsNone == "None"

\* PackageChips: the value the "None" button hands to onSelect
NoneButtonSelects == "All"

\* PackageChips: the "None" button, onSelect("All")
SelectNone == Render(NoneButtonSelects, q)

\* Filters: the search input, setQ(e.target.value)
SetQ == \E s \in QSet : Render(pkg, s)

Next == SelectPackage \/ SelectAll \/ SelectNone \/ SetQ

Spec == Init /\ [][Next]_vars

---------------------------------------------------------------------------
(* A session: filters, details and export *)

\* records of a session: three of RecordPool, and records of never
\* type-checked data in tables 1 and 2
SessionPool ==
    {r \in RecordPool : r.id \in {<<"a">>, <<"e">>, <<"c">>}}
    \cup {
    \* a PRC bound for CO at a stage key that is not in the registry
    ChangeRecord(<<"u">>, "PRC", "E", Some(<<"a">>), None, Some(590000),
                 Some("BOGUS"), Some("Ready"), None, Some("CO"), Some(<<"A">>),
                 Some("CO"), Some(8), Some(4)),
    \* a PRC bound for EI at a sub-status that is no option of its stage
    ChangeRecord(<<"x">>, "PRC", "A", Some(<<"A">>), Some(350000), None,
                 Some("EI"), Some("Done"), None, Some("EI"), None,
                 Some("EI"), Some(4), Some(4)) }

SessionRowSets ==
    {rs \in SeqsUpTo(SessionPool, MaxSessionRows) :
        \A i, j \in 1..Len(rs) : i # j => rs[i].id # rs[j].id}

InitSession == rows \in SessionRowSets /\ Mount

NextSession == Next \/ ToggleDetails \/ ExportCSV

SpecSession == InitSession /\ [][NextSession]_vars

---------------------------------------------------------------------------
(* The utility functions on their own: every call over bounded arguments *)

\* keys handed to stageInfo: the six stage keys, unknown keys, no key
KeyArgs == {Some(k) : k \in StageKey \cup {"BOGUS", "ei", ""}} \cup {None}

\* amounts handed to variance
AmountArgs == {None, Some(0), Some(1850000), Some(2000000), Some(520000)}

\* instants of the clock
Ticks == 0..MaxTick

\* dates handed to daysBetween
DateArgs == {None} \cup {Some(t) : t \in Ticks}

DashboardVars == <<rows, stage, pkg, q, view, pcrRows, pcrToEiRows, pcrToCoRows,
                   completedRows, summary, open, crashed>>

CallStageInfo ==
    \E key \in KeyArgs :
        /\ call' = [fn |-> "stageInfo", key |-> key, result |-> stageInfo(key),
                    logged |-> stageInfoLogs(key)]
        /\ UNCHANGED DashboardVars

CallProgressPct ==
    \E key \in KeyArgs :
        /\ call' = [fn |-> "progressPct", key |-> key, result |-> progressPct(key)]
        /\ UNCHANGED DashboardVars

CallVariance ==
    \E estimated \in AmountArgs, actual \in AmountArgs :
        /\ call' = [fn |-> "variance", estimated |-> estimated, actual |-> actual,
                    result |-> variance(estimated, actual)]
        /\ UNCHANGED DashboardVars

CallDaysBetween ==
    \E startIso \in DateArgs, endIso \in DateArgs, now \in Ticks :
        /\ call' = [fn |-> "daysBetween", startIso |-> startIso, endIso |-> endIso,
                    now |-> now, result |-> daysBetween(startIso, endIso, now)]
        /\ UNCHANGED DashboardVars

\* a record as ProjectKPIs reads it
KpiRecord(id, estimated, actual, outcome) ==
    ChangeRecord(id, "CO", "G", Some(<<"a">>), estimated, actual, Some("AA_SA"),
                 Some("Done"), outcome, None, None, None, Some(0), Some(0))

\* records of the views handed to ProjectKPIs
KpiPool == {
    \* CO-G-032: approved, under its estimate
    KpiRecord(<<"c">>, Some(2000000), Some(1850000), Some("Approved")),
    \* approved, more than the limit of the project
    KpiRecord(<<"l">>, None, Some(60000000), Some("Approved")),
    \* approved, no actual amount yet
    KpiRecord(<<"n">>, Some(2000000), None, Some("Approved")),
    \* PCR-G-017: an actual amount and no outcome
    KpiRecord(<<"g">>, Some(1100000), Some(1050000), None),
    \* rejected with an actual amount
    KpiRecord(<<"r">>, Some(600000), Some(590000), Some("Rejected")),
    \* approved credit: a negative actual amount
    KpiRecord(<<"d">>, None, Some(0 - 590000), Some("Approved")) }

KpiViews == SeqsUpTo(KpiPool, MaxKpiRows)

\* the first revision of ProjectKPIs renders the view rs
CallProjectKPIs ==
    \E rs \in KpiViews, progress \in ProgressVariants :
        LET k == ProjectKPIs(rs)
        IN /\ call' = [fn |-> "ProjectKPIs", revision |-> 1, rows |-> rs, k |-> k,
                       changePercentCard |-> k.changePercentDisplay,
                       barValues |-> <<k.approvedVsLimitPct, k.percentVsLimitPct>>,
                       barWidths |-> <<ProgressWidth(progress, k.approvedVsLimitPct),
                                       ProgressWidth(progress, k.percentVsLimitPct)>>]
           /\ UNCHANGED DashboardVars

\* the second revision of ProjectKPIs renders the view rs
CallProjectKPIs2 ==
    \E rs \in KpiViews :
        LET k == ProjectKPIs2(rs)
        IN /\ call' = [fn |-> "ProjectKPIs", revision |-> 2, rows |-> rs, k |-> k,
                       changePercentCard |-> k.changePercentage,
                       barValues |-> <<>>, barWidths |-> <<>>]
           /\ UNCHANGED DashboardVars

\* records of the views handed to buildCSV
CsvPool == {
    \* CO-G-032
    ChangeRecord(<<"c">>, "CO", "G", Some(<<"b">>), Some(2000000), Some(1850000),
                 Some("AA_SA"), Some("Done"), Some("Approved"), None,
                 Some(<<"g">>), None, Some(4), Some(0)),
    \* a double quote in the title, a comma in the sponsor; a PRC bound for
    \* EI without prcTarget
    ChangeRecord(<<"q">>, "PRC", "A", Some(<<"a", "\"", "b">>), Some(350000), None,
                 Some("EI"), Some("Ready"), None, Some("EI"),
                 Some(<<"a", ",", "b">>), None, Some(8), Some(4)),
    \* a comma in the title, no sponsor, no amounts
    ChangeRecord(<<"t">>, "EI", "B", Some(<<"a", ",", "b">>), None, None,
                 Some("EI"), Some("Issued"), None, None, None, None,
                 Some(0), Some(0)),
    \* a stage key that is not in the registry, no sub-status; target and
    \* prcTarget differ
    ChangeRecord(<<"u">>, "PRC", "E", Some(<<"a">>), None, Some(590000),
                 Some("BOGUS"), None, None, Some("CO"), Some(<<"A">>), Some("EI"),
                 Some(MaxTick), Some(8)),
    \* a line break in the sponsor
    ChangeRecord(<<"s">>, "PRC", "G", Some(<<"a">>), Some(600000), Some(590000),
                 Some("CO_V_VOS"), Some("Issued"), None, Some("VOS"),
                 Some(<<"a", "\n", "b">>), None, Some(4), Some(4)),
    \* an empty title
    ChangeRecord(<<"b">>, "EI", "B", Some(<<>>), Some(0), None,
                 Some("EI"), Some("Issued"), None, None, Some(<<"a">>), None,
                 Some(0), Some(0)) }

CsvViews == SeqsUpTo(CsvPool, MaxCsvRows)

CallBuildCSV ==
    \E rs \in CsvViews, now \in CsvNows :
        /\ call' = [fn |-> "buildCSV", rows |-> rs, now |-> now,
                    threw |-> buildCSVThrows(rs),
                    result |-> IF buildCSVThrows(rs) THEN <<>> ELSE buildCSV(rs, now)]
        /\ UNCHANGED DashboardVars

InitFn == rows = <<>> /\ Mount

NextFn ==
    \/ CallStageInfo
    \/ CallProgressPct
    \/ CallVariance
    \/ CallDaysBetween
    \/ CallProjectKPIs
    \/ CallProjectKPIs2

SpecFn == InitFn /\ [][NextFn]_vars

\* buildCSV on its own
SpecCsv == InitFn /\ [][CallBuildCSV]_vars

\* sub-statuses of the rows whose breakdown is rendered: the options of
\* both revisions, texts that are no option, no sub-status
SubStatusArgs ==
    {None, Some(""), Some("Closed")}
    \cup {Some(o) : o \in UNION {Range(STAGE_OPTIONS[k]) \cup Range(STAGE_OPTIONS2[k]) :
                                   k \in StageKey}}

\* the details of a row of stage k and sub-status sub are rendered
CallStageBreakdown ==
    \E revision \in {1, 2}, k \in StageKey, sub \in SubStatusArgs :
        LET opts == IF revision = 1 THEN STAGE_OPTIONS[k] ELSE STAGE_OPTIONS2[k]
        IN /\ call' = [fn |-> "stageBreakdown", revision |-> revision, stageKey |-> k,
                       subStatus |-> sub, opts |-> opts,
                       result |-> stageBreakdown(opts, sub)]
           /\ UNCHANGED DashboardVars

\* the stage progress breakdown on its own
SpecRow == InitFn /\ [][CallStageBreakdown]_vars

---------------------------------------------------------------------------
(* Properties *)

InView(r) == r \in Range(view)

\* the Completed rule as the data model states it
CompletedRule(r) ==
    \/ (r.stageKey = Some("EI")
        /\ r.subStatus \in {Some("Issued"), Some("To be Issued to Contractor")})
    \/ (r.stageKey \in {Some("CO_V_VOS"), Some("AA_SA")} /\ r.subStatus = Some("Done"))

\* C1: the Completed set is a sub-collection of the current view: every
\* completed record is in the view and the completed count never exceeds the
\* view count.
C1_CompletedWithinView ==
    /\ Len(completedRows) <= Len(view)
    /\ \A i \in 1..Len(completedRows) : InView(completedRows[i])

\* a completed record of the record set is filtered out while another stays
C1_Witness ==
    /\ completedRows # <<>>
    /\ Len(completedRows) < Len(view)
    /\ \E i \in 1..Len(rows) : isCompleted(rows[i]) /\ ~InView(rows[i])

\* C2: a view record is in the Completed set if and only if (stageKey EI and
\* subStatus "Issued" or "To be Issued to Contractor") or (stageKey CO_V_VOS or
\* AA_SA and subStatus "Done"); the summary counts the same records.
C2_CompletedIff ==
    /\ \A i \in 1..Len(view) :
          (view[i] \in Range(completedRows)) <=> CompletedRule(view[i])
    /\ \A i \in 1..Len(completedRows) : CompletedRule(completedRows[i])
    /\ summary.completed = Cardinality({i \in 1..Len(view) : CompletedRule(view[i])})

\* an issued EI is classified, an EI in preparation and a record closed by
\* the second EI sub-status are in the same view
C2_Witness ==
    /\ q # <<>>
    /\ \E i \in 1..Len(view) :
          /\ view[i].stageKey = Some("EI") /\ view[i].subStatus = Some("Issued")
          /\ view[i] \in Range(completedRows)
    /\ \E i \in 1..Len(view) :
          /\ view[i].stageKey = Some("EI") /\ view[i].subStatus = Some("In Preparation")
          /\ view[i] \notin Range(completedRows)
    /\ \E i \in 1..Len(view) :
          view[i].subStatus = Some("To be Issued to Contractor")

\* the PCR-to-other rule as the classifier section states it
PcrToOtherRule(r) ==
    r.type = "PRC" /\ r.target \in {Some("CO"), Some("VOS"), Some("AA")}

\* C3: the PCR-to-other bucket (second PCR table and its summary count) holds
\* exactly the view records with type PRC and target in {CO, VOS, AA}.
C3_PcrToOtherBucket ==
    /\ pcrToCoRows = SelectSeq(view, PcrToOtherRule)
    /\ summary.pcrToCO = Len(SelectSeq(view, PcrToOtherRule))

\* the PCR-to-EI rule
PcrToEiRule(r) == r.type = "PRC" /\ r.target = Some("EI")

\* C4: the PCR-to-EI bucket holds exactly the view records with type PRC and
\* target EI, in view order, and the summary counts them.
C4_PcrToEiBucket ==
    /\ pcrToEiRows = SelectSeq(view, PcrToEiRule)
    /\ \A i \in 1..Len(pcrToEiRows) :
          pcrToEiRows[i].type = "PRC" /\ pcrToEiRows[i].target = Some("EI")
    /\ summary.pcrToEI = Len(pcrToEiRows)

\* the view holds a PRC bound for EI, a record of another type with target
\* EI, and a PRC with another target
C4_Witness ==
    /\ q # <<>>
    /\ pcrToEiRows # <<>>
    /\ \E i \in 1..Len(view) : view[i].type # "PRC" /\ view[i].target = Some("EI")
    /\ \E i \in 1..Len(view) : view[i].type = "PRC" /\ view[i].target # Some("EI")

StageOk(r) == stage = "All" \/ r.stageKey = Some(stage)

PackageOk(r) == pkg = "All" \/ r.package = pkg

SearchOk(r) == q = <<>> \/ includes(toLowerCase(searchText(r)), toLowerCase(q))

\* C5: a record of the full record set is in the view if and only if it
\* satisfies the stage, the package and the search predicate at once.
C5_ViewIffAllThree ==
    /\ \A i \in 1..Len(rows) :
          InView(rows[i]) <=> (StageOk(rows[i]) /\ PackageOk(rows[i]) /\ SearchOk(rows[i]))
    /\ \A i \in 1..Len(view) : view[i] \in Range(rows)

\* both filters are set; one record fails only the package predicate, one
\* fails only the search predicate, one passes both
C5_Witness ==
    /\ pkg # "All" /\ q # <<>>
    /\ \E i \in 1..Len(rows) : ~PackageOk(rows[i]) /\ SearchOk(rows[i])
    /\ \E i \in 1..Len(rows) : PackageOk(rows[i]) /\ ~SearchOk(rows[i])
    /\ view # <<>>

\* the three fields joined with nothing between them
ConcatText(r) == r.id \o TemplateText(r.title) \o OrEmpty(r.sponsor)

\* the three fields joined by single spaces
SpacedText(r) == r.id \o <<" ">> \o r.title[1] \o <<" ">> \o OrEmpty(r.sponsor)

\* the records the search predicate decides: titled records that pass the
\* stage and the package predicate
SearchDecides(r) == r.title # None /\ StageOk(r) /\ PackageOk(r)

\* C6 as stated: for a non-empty q a record passes the free-text predicate iff
\* lower-cased q is a substring of the lower-cased concatenation of id, title
\* and sponsor with nothing inserted between the fields.
C6_NothingBetweenFields ==
    q # <<>> =>
        \A i \in 1..Len(rows) :
            SearchDecides(rows[i]) =>
                (InView(rows[i]) <=> includes(toLowerCase(ConcatText(rows[i])), toLowerCase(q)))

\* C6 amended: for a non-empty q a record passes the free-text predicate iff
\* lower-cased q is a substring of the lower-cased text made of id, one space,
\* title, one space and sponsor (missing sponsor taken as the empty string).
C6_SpaceBetweenFields ==
    q # <<>> =>
        \A i \in 1..Len(rows) :
            SearchDecides(rows[i]) =>
                (InView(rows[i]) <=> includes(toLowerCase(SpacedText(rows[i])), toLowerCase(q)))

\* a search for one space keeps a record none of whose fields holds a space
C6_Witness ==
    /\ q = <<" ">>
    /\ \E i \in 1..Len(view) :
          /\ view[i].title # None
          /\ ~includes(ConcatText(view[i]), <<" ">>)

Hydrant == <<"h","y","d","r","a","n","t">>

\* some field of r holds the text t in any letter case
FieldHolds(r, t) ==
    \/ includes(toLowerCase(r.id), toLowerCase(t))
    \/ includes(toLowerCase(OrEmpty(r.title)), toLowerCase(t))
    \/ includes(toLowerCase(OrEmpty(r.sponsor)), toLowerCase(t))

\* C7: search is case-insensitive: two search texts that differ only in
\* letter case give identical views; a search for "hydrant" in any case keeps
\* the records whose title holds "Fire Hydrant" and keeps no record whose id,
\* title and sponsor do not hold that text in any case.
C7_CaseInsensitive ==
    /\ \A s \in QSet :
          toLowerCase(s) = toLowerCase(q) => view = FilterView(rows, stage, pkg, s)
    /\ toLowerCase(q) = Hydrant =>
          \A i \in 1..Len(rows) :
              /\ InView(rows[i]) => FieldHolds(rows[i], Hydrant)
              /\ (PackageOk(rows[i]) /\ StageOk(rows[i])
                  /\ includes(OrEmpty(rows[i].title), <<"F","i","r","e"," ","H","y","d","r","a","n","t">>))
                 => InView(rows[i])

\* the search text is upper case, a Fire Hydrant record is kept and an
\* unrelated record is dropped by the search
C7_Witness ==
    /\ q = <<"H","Y","D","R","A","N","T">>
    /\ view # <<>>
    /\ Len(view) < Len(FilterView(rows, stage, pkg, <<>>))

\* the positions of the record set whose package is selected
PackagePositions == {i \in 1..Len(rows) : PackageOk(rows[i])}

\* the k-th smallest element of a set of positions
NthPosition(S, k) == CHOOSE i \in S : Cardinality({j \in S : j < i}) = k - 1

\* C8: the view is an order-preserving sub-sequence of the full record set;
\* with an empty search, selecting a package yields exactly the records of that
\* package, each once, in their original relative order.
C8_OrderPreserved ==
    /\ \E f \in [1..Len(view) -> 1..Len(rows)] :
          /\ \A i, j \in 1..Len(view) : i < j => f[i] < f[j]
          /\ \A i \in 1..Len(view) : view[i] = rows[f[i]]
    /\ q = <<>> =>
          /\ Len(view) = Cardinality(PackagePositions)
          /\ \A k \in 1..Len(view) : view[k] = rows[NthPosition(PackagePositions, k)]

\* a package is selected, two of its records are in the view and another
\* record is left out
C8_Witness ==
    /\ pkg # "All" /\ q = <<>>
    /\ Len(view) >= 2
    /\ Len(view) < Len(rows)
    /\ rows[1].package # pkg \/ rows[2].package # pkg

\* C9: filtering is idempotent: the filter pipeline applied to the view with
\* the predicates that produced it yields the identical sequence of records.
C9_Idempotent == FilterView(view, stage, pkg, q) = view

\* both predicates are set, the view holds at least two records and leaves
\* at least one out
C9_Witness ==
    /\ pkg # "All" /\ q # <<>>
    /\ Len(view) >= 2
    /\ Len(view) < Len(rows)

\* C10: the view equals the filter of the full record set by the current
\* (stage, package, search) values alone, whatever the earlier values were,
\* and widening every filter brings the whole record set back.
C10_ViewFromCurrentFilters ==
    /\ [](view = FilterView(rows, stage, pkg, q))
    /\ [][(pkg' = "All" /\ q' = <<>>) => view' = rows]_vars
    /\ [][pkg' = "All" => view' = FilterView(rows, stage, "All", q')]_vars

\* both filters were set one after the other, and the view is smaller than
\* the view of either filter alone
C10_Witness ==
    /\ pkg # "All" /\ q # <<>>
    /\ view # <<>>
    /\ Len(view) < Len(FilterView(rows, stage, pkg, <<>>))
    /\ Len(view) < Len(FilterView(rows, stage, "All", q))


---------------------------------------------------------------------------
(* C12: variance *)

\* C12: variance(estimated, actual) is null exactly when one of the two amounts
\* is missing, and otherwise the actual amount minus the estimated one
\* (2,000,000 and 1,850,000 give -150,000); an amount of 0 is a present
\* amount; the variance shown by a table row is the same value.
C12_Variance ==
    /\ call.fn = "variance" =>
        /\ (call.result = None) <=> (call.estimated = None \/ call.actual = None)
        /\ call.result # None => call.result[1] = call.actual[1] - call.estimated[1]
        /\ (call.estimated = Some(2000000) /\ call.actual = Some(1850000))
               => call.result = Some(0 - 150000)
        /\ (call.estimated = Some(0) /\ call.actual # None) => call.result = call.actual
    /\ \A r \in RecordPool : varianceValue(r) = variance(r.estimated, r.actual)

C12_Witness ==
    /\ call.fn = "variance"
    /\ call.estimated = Some(2000000)
    /\ call.actual = Some(1850000)
    /\ call.result = Some(0 - 150000)

---------------------------------------------------------------------------
(* C16, C17: progressPct and stageInfo *)

\* the six stage keys in lifecycle order
StageKeySeq == <<"PRC", "CC_OUTCOME", "CEO_OR_BOARD_MEMO", "EI", "CO_V_VOS", "AA_SA">>

Abs(n) == IF n >= 0 THEN n ELSE 0 - n

\* C16: over the six stage keys in lifecycle order progressPct is strictly
\* increasing and is the integer nearest to 100 * order / 6: at least 17 for
\* the first stage and exactly 100 for the last.
C16_ProgressPct ==
    call.fn = "progressPct" =>
        \A i \in 1..Len(StageKeySeq) :
            call.key = Some(StageKeySeq[i]) =>
                /\ Abs(Len(StageKeySeq) * call.result - 100 * i) * 2 <= Len(StageKeySeq)
                /\ i = 1 => call.result >= 17
                /\ i = Len(StageKeySeq) => call.result = 100
                /\ \A j \in 1..Len(StageKeySeq) :
                       j > i => progressPct(Some(StageKeySeq[j])) > call.result

C16_Witness ==
    /\ call.fn = "progressPct"
    /\ call.key = Some("PRC")
    /\ call.result = 17

\* C17: stageInfo returns the registry entry of each of the six stage keys;
\* for any other key it returns a placeholder of order 0, SLA 0 and the key as
\* its name, and reports the anomaly; progressPct of an unknown key is 0.
C17_StageInfoTotal ==
    /\ call.fn = "stageInfo" =>
        /\ \A i \in 1..Len(STAGES) :
               call.key = Some(STAGES[i].key) => call.result = STAGES[i] /\ ~call.logged
        /\ (\A i \in 1..Len(STAGES) : call.key # Some(STAGES[i].key)) =>
               /\ call.result.order = 0
               /\ call.result.slaDays = 0
               /\ call.result.key = call.key
               /\ call.key # None => call.result.name = call.key[1]
               /\ call.logged
    /\ call.fn = "progressPct" =>
        ((\A i \in 1..Len(STAGES) : call.key # Some(STAGES[i].key)) => call.result = 0)

C17_Witness ==
    /\ call.fn = "stageInfo"
    /\ call.key = Some("BOGUS")
    /\ call.result.order = 0
    /\ call.result.name = "BOGUS"
    /\ call.logged

---------------------------------------------------------------------------
(* C19: daysBetween *)

\* C19: daysBetween never returns a negative number: 0 when the start date is
\* absent, 0 when the start date is later than the reference instant (the end
\* date, or the clock when there is none), and otherwise the number of days
\* between the two rounded to the nearest integer.
C19_DaysBetween ==
    call.fn = "daysBetween" =>
        LET ref == IF call.endIso # None THEN call.endIso[1] ELSE call.now
        IN /\ call.result >= 0
           /\ call.startIso = None => call.result = 0
           /\ (call.startIso # None /\ call.startIso[1] > ref) => call.result = 0
           /\ (call.startIso # None /\ call.startIso[1] <= ref) =>
                  Abs(TicksPerDay * call.result - (ref - call.startIso[1])) * 2 <= TicksPerDay

C19_Witness ==
    /\ call.fn = "daysBetween"
    /\ call.startIso = Some(MaxTick)
    /\ call.endIso = None
    /\ call.now = 0
    /\ call.result = 0

---------------------------------------------------------------------------
(* C13, C14, C15: ProjectKPIs *)

RECURSIVE ApprovedActualSum(_, _)
\* sum of actual over the first n records of rs that are Approved with an
\* actual amount
ApprovedActualSum(rs, n) ==
    IF n = 0 THEN 0
    ELSE ApprovedActualSum(rs, n - 1)
         + (IF rs[n].outcome = Some("Approved") /\ rs[n].actual # None
            THEN rs[n].actual[1] ELSE 0)

\* C13: the displayed "Change % of Project" is 100 times the approved actual
\* sum of the view divided by the total project value, to two decimals: an
\* approved actual sum of 1,850,000 displays "0.37" whatever the estimated
\* amounts in the view.
C13_ChangePercentOfProject ==
    call.fn = "ProjectKPIs" =>
        LET sum == ApprovedActualSum(call.rows, Len(call.rows))
        IN /\ call.changePercentCard = toFixed2(sum * ((100 * PctUnit) \div TOTAL_PROJECT_VALUE))
           /\ sum = 1850000 => call.changePercentCard = <<"0", ".", "3", "7">>

\* C14: the Total Approved Change Value of a view is the sum of actual over
\* exactly its records that are Approved and carry an actual amount; a record
\* with another or no outcome adds nothing, and the value is 0 when the view
\* has no such record.
C14_TotalApprovedValue ==
    call.fn = "ProjectKPIs" =>
        /\ call.k.totalApprovedValue = ApprovedActualSum(call.rows, Len(call.rows))
        /\ (\A i \in 1..Len(call.rows) :
                call.rows[i].outcome # Some("Approved") \/ call.rows[i].actual = None)
               => call.k.totalApprovedValue = 0

C14_Witness ==
    /\ call.fn = "ProjectKPIs"
    /\ Len(call.rows) = 2
    /\ call.rows[1].outcome = None /\ call.rows[1].actual = Some(1050000)
    /\ call.rows[2].outcome = Some("Approved") /\ call.rows[2].actual = Some(1850000)
    /\ call.k.totalApprovedValue = 1850000

\* C15: every percentage-of-limit bar value is within [0, 100]: the
\* percentage of the limit is min(100, max(0, 100 * changePercent /
\* limitPercent)), so an approved sum above the limit gives exactly 100, and
\* the width of a rendered bar is never below 0% or above 100%.
C15_BarWithinLimits ==
    call.fn = "ProjectKPIs" =>
        LET sum == ApprovedActualSum(call.rows, Len(call.rows))
            limit == (TOTAL_PROJECT_VALUE \div 100) * LIMIT_PERCENT
        IN /\ \A i \in 1..Len(call.barValues) :
                  /\ 0 <= call.barValues[i] /\ call.barValues[i] <= 100 * PctUnit
                  /\ 0 <= call.barWidths[i] /\ call.barWidths[i] <= 100 * PctUnit
                  /\ sum > limit => call.barValues[i] = 100 * PctUnit
                  /\ sum < 0 => call.barValues[i] = 0
                  /\ (0 <= sum /\ sum <= limit) =>
                         call.barValues[i] = sum * ((100 * PctUnit) \div limit)
           /\ call.revision = 1 => Len(call.barValues) = 2

C15_Witness ==
    /\ call.fn = "ProjectKPIs"
    /\ call.revision = 1
    /\ ApprovedActualSum(call.rows, Len(call.rows)) > (TOTAL_PROJECT_VALUE \div 100) * LIMIT_PERCENT
    /\ call.barValues = <<100 * PctUnit, 100 * PctUnit>>
    /\ call.barWidths = <<100 * PctUnit, 100 * PctUnit>>

---------------------------------------------------------------------------
(* C20: the shape of the CSV text *)

RECURSIVE Split(_, _)
\* the pieces of text t between the occurrences of the token sep
Split(t, sep) ==
    IF \E i \in 1..Len(t) : t[i] = sep
    THEN LET i == CHOOSE j \in 1..Len(t) : t[j] = sep /\ \A k \in 1..(j - 1) : t[k] # sep
         IN <<SubSeq(t, 1, i - 1)>> \o Split(SubSeq(t, i + 1, Len(t)), sep)
    ELSE <<t>>

\* C20: for every view of N records, whatever their titles, sponsors and
\* sub-statuses, buildCSV gives a text of exactly N + 1 lines whose first
\* line, split at its commas, is the 13 column names in order, and that does
\* not end with a line break.
C20_CsvShape ==
    call.fn = "buildCSV" =>
        /\ ~call.threw
        /\ Len(Split(call.result, "\n")) = Len(call.rows) + 1
        /\ Split(Split(call.result, "\n")[1], ",") = [i \in 1..Len(headers) |-> <<headers[i]>>]
        /\ Len(headers) = 13
        /\ call.result[Len(call.result)] # "\n"

---------------------------------------------------------------------------
(* C11, C18: a session *)

\* C11: no operation of the user (selecting a package, editing the search
\* text, opening or closing the details of a row, exporting the CSV) changes
\* the record set: its records, their number and their order stay as
\* they were when the dashboard was mounted.
C11_RecordsNeverChange == [][rows' = rows]_vars

C11_Witness ==
    /\ Len(rows) = 2
    /\ Len(view) = 1
    /\ q # <<>>
    /\ pkg # "All"
    /\ open # {}
    /\ call.fn = "exportCSV"
    /\ ~call.threw

\* C18: a record whose stage key is unknown, or whose sub-status is no option
\* of its stage, never makes an operation fail: filtering, the summary, the
\* CSV export, rendering its row and opening its details all complete.
C18_UnknownNeverFails ==
    /\ ~crashed
    /\ (call.fn = "exportCSV" /\ call.threw) =>
           \E i \in 1..Len(call.rows) : call.rows[i].title = None

---------------------------------------------------------------------------
(* C21: the export is the export of the view *)

\* the cells of the i-th data row of the CSV text t
DataRowCells(t, i) == Split(Split(t, "\n")[i + 1], ",")

\* C21: the CSV export writes the current view and not the full record set:
\* in every filter state reached by package selections and search edits, the
\* exported text has one data row per record of the view and its i-th data
\* row starts with the id of the i-th record of the view.
C21_ExportIsTheView ==
    (call.fn = "exportCSV" /\ ~call.threw) =>
        /\ Len(Split(call.result, "\n")) = Len(view) + 1
        /\ \A i \in 1..Len(view) : DataRowCells(call.result, i)[1] = view[i].id

C21_Witness ==
    /\ call.fn = "exportCSV"
    /\ ~call.threw
    /\ q # <<>>
    /\ Len(rows) = 2
    /\ Len(view) = 1
    /\ view[1] = rows[2]
    /\ DataRowCells(call.result, 1)[1] = rows[2].id

---------------------------------------------------------------------------
(* C22: the numeric cells of a data row *)

\* positions of the tokens sep of the text t that are not between double
\* quotes: an even number of double quotes stands before them
CutPositions(t, sep) ==
    {i \in 1..Len(t) :
        t[i] = sep /\ Cardinality({j \in 1..(i - 1) : t[j] = "\""}) % 2 = 0}

\* the k-th smallest position of P
NthCut(P, k) == CHOOSE p \in P : Cardinality({x \in P : x < p}) = k - 1

\* the pieces of the text t, cut at the tokens sep outside double quotes
SplitOutsideQuotes(t, sep) ==
    LET P == CutPositions(t, sep)
        n == Cardinality(P)
    IN [k \in 1..(n + 1) |->
           SubSeq(t, IF k = 1 THEN 1 ELSE NthCut(P, k - 1) + 1,
                     IF k = n + 1 THEN Len(t) ELSE NthCut(P, k) - 1)]

\* the records a CSV reader finds in the text t, and the fields of a record
CsvRecords(t) == SplitOutsideQuotes(t, "\n")

CsvFields(rec) == SplitOutsideQuotes(rec, ",")

RECURSIVE DecimalValue(_)
\* the natural number a text of digits denotes
DecimalValue(t) ==
    IF t = <<>> THEN 0
    ELSE 10 * DecimalValue(SubSeq(t, 1, Len(t) - 1))
         + (CHOOSE k \in 0..9 : Digits[k + 1] = t[Len(t)])

\* the cell is the number n in decimal, with its sign
IsNumberCell(cell, n) ==
    /\ cell # <<>>
    /\ \A j \in 1..Len(cell) : cell[j] \in Range(Digits) \/ (j = 1 /\ cell[j] = "-")
    /\ IF n < 0
       THEN cell[1] = "-" /\ Len(cell) > 1 /\ DecimalValue(Tail(cell)) = 0 - n
       ELSE cell[1] # "-" /\ DecimalValue(cell) = n
    /\ (Len(cell) > 1 => cell[1] # "0")

\* the cell is the optional number opt, or empty when opt is absent
IsOptNumberCell(cell, opt) ==
    IF opt = None THEN cell = <<>> ELSE IsNumberCell(cell, opt[1])

\* no sponsor of the view holds a line break
NoLineBreak(rs) ==
    \A i \in 1..Len(rs) : \A j \in 1..Len(OrEmpty(rs[i].sponsor)) :
        OrEmpty(rs[i].sponsor)[j] # "\n"

\* C22: in a data row of the CSV the Estimated, Actual and Variance cells
\* hold the number itself when it is defined, sign and magnitude kept (a
\* variance of -150000 is written -150000, a present 0 is written 0), and are
\* empty, not "0" and not "null", when the amount is absent or the variance
\* undefined.
C22_NumericCells ==
    (call.fn = "buildCSV" /\ ~call.threw /\ NoLineBreak(call.rows)) =>
        \A i \in 1..Len(call.rows) :
            LET r == call.rows[i]
                cells == CsvFields(CsvRecords(call.result)[i + 1])
            IN /\ IsOptNumberCell(cells[5], r.estimated)
               /\ IsOptNumberCell(cells[6], r.actual)
               /\ IF r.estimated # None /\ r.actual # None
                  THEN IsNumberCell(cells[7], r.actual[1] - r.estimated[1])
                  ELSE cells[7] = <<>>
               /\ r.estimated = Some(0) => cells[5] = <<"0">>
               /\ (r.estimated = Some(2000000) /\ r.actual = Some(1850000))
                      => cells[7] = <<"-", "1", "5", "0", "0", "0", "0">>

C22_Witness ==
    /\ call.fn = "buildCSV"
    /\ ~call.threw
    /\ Len(call.rows) = 2
    /\ call.rows[1].estimated = Some(2000000) /\ call.rows[1].actual = Some(1850000)
    /\ call.rows[2].estimated = None /\ call.rows[2].actual = None
    /\ CsvFields(CsvRecords(call.result)[2])[7] = <<"-", "1", "5", "0", "0", "0", "0">>
    /\ CsvFields(CsvRecords(call.result)[3])[5] = <<>>
    /\ CsvFields(CsvRecords(call.result)[3])[7] = <<>>

---------------------------------------------------------------------------
(* C23, C28: quoting, and the PRCTarget cell *)

\* C23: the CSV export quotes every field that holds a comma or a double
\* quote, whatever its column (a sponsor holding a comma, for one), so every
\* data row parses to exactly 13 fields.
C23_EveryRowThirteenFields ==
    (call.fn = "buildCSV" /\ ~call.threw /\ NoLineBreak(call.rows)) =>
        \A i \in 1..Len(call.rows) :
            Len(CsvFields(CsvRecords(call.result)[i + 1])) = Len(headers)

\* values of the field target
TargetValues == {None, Some("EI"), Some("CO"), Some("TBC"), Some("VOS"), Some("AA")}

\* C28: the PRCTarget cell of a data row is the record's prcTarget, empty
\* when prcTarget is absent, and does not depend on the record's target (the
\* field the tables are built from): records that differ only in target
\* give the same cell, and a PRC with target EI and no prcTarget gives an
\* empty cell.
C28_PrcTargetCell ==
    (call.fn = "buildCSV" /\ ~call.threw /\ NoLineBreak(call.rows)) =>
        \A i \in 1..Len(call.rows) :
            LET r == call.rows[i]
                cell == CsvFields(CsvRecords(call.result)[i + 1])[10]
            IN /\ cell = IF r.prcTarget = None THEN <<>> ELSE <<r.prcTarget[1]>>
               /\ \A tg \in TargetValues :
                      CsvFields(CsvLine([r EXCEPT !.target = tg], call.now))[10] = cell
               /\ (r.type = "PRC" /\ r.target = Some("EI") /\ r.prcTarget = None)
                      => cell = <<>>

C28_Witness ==
    /\ call.fn = "buildCSV"
    /\ ~call.threw
    /\ Len(call.rows) = 2
    /\ call.rows[1].type = "PRC"
    /\ call.rows[1].target = Some("EI") /\ call.rows[1].prcTarget = None
    /\ call.rows[2].target = Some("CO") /\ call.rows[2].prcTarget = Some("EI")
    /\ CsvFields(CsvRecords(call.result)[2])[10] = <<>>
    /\ CsvFields(CsvRecords(call.result)[3])[10] = <<"EI">>

---------------------------------------------------------------------------
(* C24: the empty view *)

\* the header line of the CSV
HeaderLine == Join([i \in 1..Len(headers) |-> <<headers[i]>>], ",")

\* C24: an empty view is a valid state: the summary counts are all 0, the
\* approved value is 0, the CSV export gives the header line alone, and the
\* notice "no records match" is shown; that notice is shown exactly when the
\* view is empty and never with the notice "only non-PCR records".
C24_EmptyView ==
    /\ view = <<>> =>
        /\ ~crashed
        /\ summary = [total |-> 0, pcrToEI |-> 0, pcrToCO |-> 0, completed |-> 0]
        /\ ProjectKPIs(view).totalApprovedValue = 0
        /\ ProjectKPIs2(view).totalApprovedValue = 0
        /\ call.fn = "exportCSV" => ~call.threw /\ call.result = HeaderLine
    /\ noRecordsNotice(view) <=> view = <<>>
    /\ ~(noRecordsNotice(view) /\ onlyNonPcrNotice(pcrRows, view))

C24_Witness ==
    /\ view = <<>>
    /\ Len(rows) = 2
    /\ q # <<>>
    /\ call.fn = "exportCSV"
    /\ call.result = HeaderLine
    /\ noRecordsNotice(view)

---------------------------------------------------------------------------
(* C25: the stage filter *)

\* C25: in every reachable state the stage filter is "All": no operation
\* changes it, so the stage predicate removes no record and the view is
\* decided by the package selection and the search text alone.
C25_StageAlwaysAll ==
    /\ stage = "All"
    /\ \A i \in 1..Len(rows) : matchesStage(rows[i], stage)
    /\ view = SelectSeq(rows, LAMBDA r : PackageOk(r) /\ SearchOk(r))

C25_Witness ==
    /\ stage = "All"
    /\ pkg # "All"
    /\ q # <<>>
    /\ ~crashed
    /\ Len(view) = 2
    /\ view[1].stageKey # view[2].stageKey

---------------------------------------------------------------------------
(* C26: the "None" button *)

\* C26: the "None" button of the package control does what the "All" button
\* does: it sets the package filter to "All", so after it the view holds the
\* records of every package that pass the search text; and no action of the
\* package control leads to a state in which no package is selected.
C26_NoneIsAll ==
    /\ [](pkg = "All" \/ pkg \in PackageId)
    /\ [][SelectNone =>
             /\ SelectAll
             /\ pkg' = "All"
             /\ view' = SelectSeq(rows, SearchOk)]_vars

C26_Witness ==
    /\ pkg = "All"
    /\ q # <<>>
    /\ Len(view) = 2
    /\ view[1].package # view[2].package

---------------------------------------------------------------------------
(* C27: the summary card and the tables *)

\* C27: in every reachable state the summary card agrees with the tables:
\* its total is the length of the view, pcrToEI the number of rows of table
\* 1, pcrToCO the number of rows of table 2 and completed the number of rows
\* of the Completed table; and the completed predicate of the summary, the
\* one of the Completed table and the closed-summary flag of a row accept
\* the same records.
C27_SummaryAgreesWithTables ==
    /\ summary.total = Len(view)
    /\ summary.pcrToEI = Len(pcrToEiRows)
    /\ summary.pcrToCO = Len(pcrToCoRows)
    /\ summary.completed = Len(completedRows)
    /\ \A i \in 1..Len(rows) :
          LET r == rows[i]
          IN /\ (computeSummary(<<r>>).completed = 1) <=> (CompletedRowsOf(<<r>>) = <<r>>)
             /\ showClosedSummary(r) <=> (CompletedRowsOf(<<r>>) = <<r>>)

C27_Witness ==
    /\ q # <<>>
    /\ Len(view) = 3
    /\ summary.total = 3
    /\ summary.pcrToEI = 1 /\ Len(pcrToEiRows) = 1
    /\ summary.pcrToCO = 1 /\ Len(pcrToCoRows) = 1
    /\ summary.completed = 2 /\ Len(completedRows) = 2

---------------------------------------------------------------------------
(* C29: the sub-statuses of the Completed predicate *)

\* the stages in which a record can be completed
ClosingStages == {"EI", "CO_V_VOS", "AA_SA"}

\* every sub-status an option list or the seed data names
SubStatusValues ==
    UNION {Range(STAGE_OPTIONS[k]) \cup Range(STAGE_OPTIONS2[k]) : k \in StageKey}

\* the sub-statuses with which the Completed predicate accepts a record of
\* stage k
TestedFor(k) ==
    {sub \in SubStatusValues :
        CompletedRowsOf(<<[stageKey |-> Some(k), subStatus |-> Some(sub)]>>) # <<>>}

\* C29: every sub-status the Completed predicate tests for a stage is in the
\* option list of that stage in STAGE_OPTIONS ("Issued" and "To be Issued to
\* Contractor" for EI, "Done" for CO_V_VOS and for AA_SA), so a record of the
\* dashboard in one of the three closing stages can be completed with a
\* sub-status that is an option of its stage.
C29_TestedSubStatusesAreOptions ==
    \A i \in 1..Len(rows) : \A k \in ClosingStages :
        rows[i].stageKey = Some(k) =>
            /\ TestedFor(k) = IF k = "EI" THEN {"Issued", "To be Issued to Contractor"}
                              ELSE {"Done"}
            /\ \A opts \in {STAGE_OPTIONS, STAGE_OPTIONS2} :
                   /\ TestedFor(k) \subseteq Range(opts[k])
                   /\ \E sub \in Range(opts[k]) : sub \in TestedFor(k)



---------------------------------------------------------------------------
(* C30: the stage progress breakdown *)

\* C30: in the stage progress breakdown of a row with a known stage, every
\* option of the stage carries exactly one of the labels Completed, Current
\* and Incomplete, and exactly one option is Current: the option equal to
\* the sub-status of the record, or the first option when the sub-status is
\* missing or is no option; every option before it is Completed and every
\* option after it is Incomplete.
C30_BreakdownMarks ==
    call.fn = "stageBreakdown" =>
        LET opts == call.opts
            marks == call.result
            current == {i \in 1..Len(opts) : "Current" \in marks[i]}
        IN /\ Len(marks) = Len(opts)
           /\ \A i \in 1..Len(opts) :
                  marks[i] \in {{"Completed"}, {"Current"}, {"Incomplete"}}
           /\ Cardinality(current) = 1
           /\ \A c \in current :
                  /\ IF call.subStatus # None /\ call.subStatus[1] \in Range(opts)
                     THEN opts[c] = call.subStatus[1]
                     ELSE c = 1
                  /\ \A i \in 1..Len(opts) :
                         /\ i < c => marks[i] = {"Completed"}
                         /\ i > c => marks[i] = {"Incomplete"}

C30_Witness ==
    /\ call.fn = "stageBreakdown"
    /\ call.stageKey = "EI"
    /\ call.subStatus = Some("Issued")
    /\ call.result[6] = {"Completed"}
    /\ call.result[7] = {"Current"}
    /\ call.result[8] = {"Incomplete"}

===========================================================================
